---- MODULE Spec2Model ----
(***************************************************************************)
(* Level crossings, extrema, turning points, rainflow entry checks and     *)
(* outlier flags of wafo.misc (src/misc.py).                               *)
(*                                                                         *)
(* A state is one call: the input series x, the build configuration clib   *)
(* (whether the compiled c_library was imported), the call made and what   *)
(* it returned.  Indices are 0-based as in the source; a TLA+ sequence s   *)
(* holds the source's element k at s[k+1].  Python's None is the string    *)
(* "None"; an integer method m is the string "i<m>".                       *)
(***************************************************************************)
EXTENDS Integers, Sequences, FiniteSets, TLC

VARIABLES x, clib, call, ret

vars == <<x, clib, call, ret>>

\* longest input series
MaxLen == 4
\* samples and levels are the integers -MaxVal..MaxVal
MaxVal == 1
\* the not-a-number sample (np.isnan); never used in arithmetic
NaN == 99

Real == (0 - MaxVal)..MaxVal
Sample == Real \cup {NaN}
Series == UNION {[1..n -> Sample] : n \in 1..MaxLen}

isnan(a) == a = NaN
isfinite(xs) == \A i \in DOMAIN xs : ~isnan(xs[i])

\* ---------------------------------------------------------------- helpers

sign(a) == IF a > 0 THEN 1 ELSE IF a < 0 THEN -1 ELSE 0

xor(a, b) == a # b

mod(a, b) == a % b

\* IEEE subtraction: NaN propagates
Sub(a, b) == IF isnan(a) \/ isnan(b) THEN NaN ELSE a - b

diff(xs) == [i \in 1..(Len(xs) - 1) |-> Sub(xs[i + 1], xs[i])]

arange(n) == [i \in 1..n |-> i - 1]

\* s[from::] and s[:-1]
DropFirst(s) == IF Len(s) = 0 THEN s ELSE SubSeq(s, 2, Len(s))
DropLast(s) == IF Len(s) = 0 THEN s ELSE SubSeq(s, 1, Len(s) - 1)

\* s[t_0::2]
Stride2(s, t_0) ==
    LET m == IF Len(s) > t_0 THEN (Len(s) - t_0 + 1) \div 2 ELSE 0
    IN  [k \in 1..m |-> s[t_0 + 2 * k - 1]]

\* the elements of a finite set of integers in increasing order
RECURSIVE SortSet(_)
SortSet(S) ==
    IF S = {} THEN <<>>
    ELSE LET m == CHOOSE m \in S : \A k \in S : m <= k
         IN  <<m>> \o SortSet(S \ {m})

Range(s) == {s[i] : i \in DOMAIN s}

unique(s) == SortSet(Range(s))

flatnonzero(mask) == SortSet({i - 1 : i \in {j \in DOMAIN mask : mask[j]}})

\* ---------------------------------------------------------------- results

Idle == [status |-> "idle", ind |-> <<>>, indg |-> <<>>, xn |-> <<>>, warned |-> FALSE,
         via |-> "", cycles |-> <<>>, v_ind |-> <<>>, t0 |-> <<>>, kept |-> {}]

Ok(ind, warned) == [Idle EXCEPT !.status = "ok", !.ind = ind, !.warned = warned]

Raise(exc) == [Idle EXCEPT !.status = exc]

NoCall == [op |-> "idle", v |-> 0, kind |-> "None", method |-> "clib", h |-> 0,
           zcrit |-> 0, dcrit |-> [given |-> FALSE, val |-> 0],
           ddcrit |-> [given |-> FALSE, val |-> 0],
           ndim |-> 1, nrows |-> 1, n |-> 2,
           min_h |-> [given |-> FALSE, val |-> 0], min_p |-> 0,
           level |-> [given |-> FALSE, val |-> 0],
           t |-> <<>>, ind |-> <<>>]

\* ------------------------------------------------------- level crossings

\* The scan of the crossing kernel over the sign array y: the pair (i, i+1)
\* is a crossing when the sign of y[i+1] differs from the sign carried at i;
\* a zero sample inherits the sign carried so far.
RECURSIVE cross_scan(_, _, _)
cross_scan(y, i, carried) ==
    IF i >= Len(y) - 1 THEN <<>>
    ELSE LET nxt == IF y[i + 2] # 0 THEN y[i + 2] ELSE carried
         IN  (IF nxt # carried THEN <<i>> ELSE <<>>) \o cross_scan(y, i + 1, nxt)

numba_misc_findcross(y) == IF Len(y) = 0 THEN <<>> ELSE cross_scan(y, 0, y[1])

clib_findcross(y) == numba_misc_findcross(y)

_findcross(xn, method) ==
    IF clib /\ method = "clib" THEN clib_findcross(xn) ELSE numba_misc_findcross(xn)

AtLevelCountsAsAbove(xs, v) == [i \in DOMAIN xs |-> IF xs[i] >= v THEN 1 ELSE 0 - 1]

\* xn = np.int8(sign(x - v))
SignIgnoringLevel(xs, v) == [i \in DOMAIN xs |-> sign(xs[i])]
level_signs(xs, v) == [i \in DOMAIN xs |-> sign(xs[i] - v)]

\* t_0 of kind 'd': skip the first crossing when the sample after it is above
DownStartInverted(xn, ind) == IF xn[ind[1] + 2] < 0 THEN 1 ELSE 0
down_start(xn, ind) == IF xn[ind[1] + 2] > 0 THEN 1 ELSE 0

UpStartAsDown(xn, ind) == IF xn[ind[1] + 2] > 0 THEN 1 ELSE 0

\* t_0 of kind 'u'
up_start(xn, ind) == IF xn[ind[1] + 2] < 0 THEN 1 ELSE 0

\* dw/tw start with a down-crossing, uw/cw with an up-crossing
WaveFirstNeverDropped(xn, ind, kind) == ind
wave_first(xn, ind, kind) ==
    LET first_is_down_crossing == xn[ind[1] + 1] > xn[ind[1] + 2]
    IN  IF xor(first_is_down_crossing, kind \in {"dw", "tw"})
        THEN DropFirst(ind) ELSE ind

\* odd count for dw/uw, even count for tw/cw
WaveLastNeverDropped(ind, kind) == ind
wave_last(ind, kind) ==
    LET n_c == Len(ind)
        is_odd == mod(n_c, 2) = 1
    IN  IF xor(is_odd, kind \in {"dw", "uw"}) THEN DropLast(ind) ELSE ind

KindCheckedBeforeCrossings(xs, v, kind, method) ==
    LET xn == level_signs(xs, v)
        ind == _findcross(xn, method)
    IN  IF kind \in {"du", "all", "None"} THEN Ok(ind, Len(ind) = 0)
        ELSE IF Len(ind) = 0
             THEN IF kind \in {"d", "u", "dw", "uw", "tw", "cw"} THEN Ok(ind, TRUE)
                  ELSE Raise("ValueError")
        ELSE IF kind = "d" THEN Ok(Stride2(ind, down_start(xn, ind)), FALSE)
        ELSE IF kind = "u" THEN Ok(Stride2(ind, up_start(xn, ind)), FALSE)
        ELSE IF kind \in {"dw", "uw", "tw", "cw"}
             THEN Ok(wave_last(wave_first(xn, ind, kind), kind), FALSE)
        ELSE Raise("ValueError")

findcross(xs, v, kind, method) ==
    LET xn == level_signs(xs, v)
        ind == _findcross(xn, method)
    IN  IF Len(ind) = 0 THEN Ok(ind, TRUE)
        ELSE IF kind \in {"du", "all", "None"} THEN Ok(ind, FALSE)
        ELSE IF kind = "d" THEN Ok(Stride2(ind, down_start(xn, ind)), FALSE)
        ELSE IF kind = "u" THEN Ok(Stride2(ind, up_start(xn, ind)), FALSE)
        ELSE IF kind \in {"dw", "uw", "tw", "cw"}
             THEN Ok(wave_last(wave_first(xn, ind, kind), kind), FALSE)
        ELSE Raise("ValueError")

\* ---------------------------------------------------------------- extrema

ExtremaInDifferenceSpace(xs) == findcross(diff(xs), 0, "None", "clib")
\* ---------------------------------------------------- exact crossing times

\* t[ind] + (v - f[ind]) * (t[ind + 1] - t[ind]) / (f[ind + 1] - f[ind]),
\* each time kept as the exact fraction num / den over the denominator
\* f[ind + 1] - f[ind]; den = 0 is the inf or nan of a division by zero.
\* An index whose successor lies beyond the arrays is an IndexError.
EcrossFromNextSample(t, f, ind, v) ==
    IF \E k \in DOMAIN ind : ind[k] + 2 > Len(f) \/ ind[k] + 2 > Len(t)
    THEN Raise("IndexError")
    ELSE [Ok(<<>>, FALSE) EXCEPT !.t0 =
            [k \in DOMAIN ind |->
                LET i == ind[k] + 1
                    den == f[i + 1] - f[i]
                IN  [num |-> t[i + 1] * den + (v - f[i]) * (t[i + 1] - t[i]),
                     den |-> den]]]

ecross(t, f, ind, v) ==
    IF \E k \in DOMAIN ind : ind[k] + 2 > Len(f) \/ ind[k] + 2 > Len(t)
    THEN Raise("IndexError")
    ELSE [Ok(<<>>, FALSE) EXCEPT !.t0 =
            [k \in DOMAIN ind |->
                LET i == ind[k] + 1
                    den == f[i + 1] - f[i]
                IN  [num |-> t[i] * den + (v - f[i]) * (t[i + 1] - t[i]),
                     den |-> den]]]

findextrema(xs) ==
    LET c == findcross(diff(xs), 0, "None", "clib")
    IN  [c EXCEPT !.ind = [i \in DOMAIN c.ind |-> c.ind[i] + 1]]

\* ---------------------------------------------------------- turning points

FirstSampleAlwaysAdded(xs, ind, kind) == <<0>> \o ind \o <<Len(xs) - 1>>

\* boundary indices added around the extrema
add_boundaries(xs, ind, kind) ==
    LET n == Len(xs)
    IN  IF kind = "astm"
        THEN IF ind[1] # 0 THEN <<0>> \o ind \o <<n - 1>> ELSE ind \o <<n - 1>>
        ELSE IF xs[ind[1] + 1] > xs[ind[2] + 1]
             THEN <<0>> \o ind \o <<n - 1>> ELSE ind \o <<n - 1>>

\* kind 'mw'/'Mw': first point a minimum/Maximum, odd number of points
wave_points(xs, ind, kind) ==
    LET first_is_max == xs[ind[1] + 1] > xs[ind[2] + 1]
        remove_first == xor(first_is_max, kind = "Mw")
        ind1 == IF remove_first THEN DropFirst(ind) ELSE ind
    IN  IF mod(Len(ind1), 2) # 1 THEN DropLast(ind1) ELSE ind1

\* ------------------------------------------------- rainflow filter (entry)

isinstance_str(method) == method \notin {"i0", "i1", "i2"}

\* which scan findrfc hands the points to: the compiled one, or numba_misc's
\* with the method given, every string method being replaced by 2
rfc_variant(method) ==
    IF clib /\ method = "clib" THEN "clib"
    ELSE IF isinstance_str(method) THEN "i2" ELSE method

DecreasingStartOnly(y) == y[1] > y[2] /\ y[2] > y[3]

\* the first three points rise or fall strictly: 'This is not a sequence of
\* turningpoints, exit'
not_turning_points(y) ==
    (y[1] > y[2] /\ y[2] > y[3]) \/ (y[1] < y[2] /\ y[2] < y[3])

\* findrfc up to the call of the scan: a result with status "scan" is handed
\* to the scan named by via; rfc_sorted makes the return value of what the
\* scan hands back
findrfc(tp, h, method) ==
    IF Len(tp) < 2 THEN Raise("IndexError")
    ELSE LET t_start == IF tp[1] > tp[2] THEN 1 ELSE 0
             y == SubSeq(tp, t_start + 1, Len(tp))
             n == Len(y)
             NC == (n \div 2) - 1
         IN  IF NC < 1 THEN Ok(<<>>, FALSE)
             ELSE IF not_turning_points(y)
                  THEN Ok(<<>>, TRUE)
             ELSE [Idle EXCEPT !.status = "scan", !.via = rfc_variant(method)]

\* x[ind]
take(xs, ind) == [k \in DOMAIN ind |-> xs[ind[k] + 1]]

\* ind[ind1]
select(ind, ind1) == [k \in DOMAIN ind1 |-> ind[ind1[k] + 1]]

\* the end of findtp: ind = ind[ind1] for the result r of the filter, then
\* the 'mw'/'Mw' selection, which reads x[ind[1]] whatever the filter left
\* (line 1447).  Where the filter reached the rainflow scan the result keeps
\* status "scan".
tp_selected(xs, kind, ind0, r, warned) ==
    IF r.status = "scan" THEN [r EXCEPT !.warned = warned]
    ELSE IF kind \in {"mw", "Mw"}
    THEN IF Len(r.ind) < 2
         THEN [Raise("IndexError") EXCEPT !.warned = warned]
         ELSE Ok(wave_points(xs, select(ind0, r.ind), kind), warned)
    ELSE Ok(select(ind0, r.ind), warned)

\* h > 0: the augmented extrema ind0 pass through findrfc(x[ind], h)
tp_filtered(xs, h, kind, ind0, warned) ==
    IF h > 0
    THEN tp_selected(xs, kind, ind0, findrfc(take(xs, ind0), h, "clib"), warned)
    ELSE tp_selected(xs, kind, ind0, Ok(arange(Len(ind0)), FALSE), warned)

\* findtp from the extrema e on: None for fewer than 2 of them
tp_of_extrema(xs, h, kind, e) ==
    IF Len(e.ind) < 2 THEN [Raise("None") EXCEPT !.warned = e.warned]
    ELSE tp_filtered(xs, h, kind, add_boundaries(xs, e.ind, kind), e.warned)

findtp(xs, h, kind) ==
    IF h < 0 THEN Ok(arange(Len(xs)), FALSE)
    ELSE tp_of_extrema(xs, h, kind, findextrema(xs))

\* ------------------------------------------------- rainflow cycles (ASTM)

absdiff(a, b) == IF a < b THEN b - a ELSE a - b

\* a cycle record (amplitude, mean, type) between the points a and b; amp2 and
\* mean2 are twice the amplitude |a - b| / 2 and twice the mean (a + b) / 2,
\* type is "full" (1.0) or "half" (0.5)
cycle(a, b, type) == [amp2 |-> absdiff(a, b), mean2 |-> a + b, type |-> type]

\* the four-point closing condition on the last four stacked points: the
\* inner range is no larger than the ranges on either side of it
astm_closes(a, b, c, d) ==
    absdiff(b, c) <= absdiff(a, b) /\ absdiff(b, c) <= absdiff(c, d)

\* close full cycles while the condition holds, popping the two inner points
RECURSIVE astm_close(_, _)
astm_close(stack, cycles) ==
    LET k == Len(stack)
    IN  IF k >= 4 /\ astm_closes(stack[k - 3], stack[k - 2], stack[k - 1], stack[k])
        THEN astm_close(SubSeq(stack, 1, k - 3) \o <<stack[k]>>,
                        Append(cycles, cycle(stack[k - 2], stack[k - 1], "full")))
        ELSE [stack |-> stack, cycles |-> cycles]

\* at the end of input the points left on the stack go out as half cycles
astm_flush(stack) ==
    [k \in 1..(Len(stack) - 1) |-> cycle(stack[k], stack[k + 1], "half")]

RECURSIVE astm_scan(_, _, _, _)
astm_scan(tp, i, stack, cycles) ==
    IF i > Len(tp) THEN cycles \o astm_flush(stack)
    ELSE LET c == astm_close(Append(stack, tp[i]), cycles)
         IN  astm_scan(tp, i + 1, c.stack, c.cycles)

numba_misc_findrfc_astm(tp) == astm_scan(tp, 1, <<>>, <<>>)

AstmWithoutFirstPoint(tp) ==
    [Idle EXCEPT !.status = "ok", !.cycles = numba_misc_findrfc_astm(Tail(tp))]

findrfc_astm(tp) ==
    [Idle EXCEPT !.status = "ok", !.cycles = numba_misc_findrfc_astm(tp)]

\* -------------------------------------------------------------------- peaks

amax(s) == CHOOSE a \in Range(s) : \A b \in Range(s) : b <= a

amin(s) == CHOOSE a \in Range(s) : \A b \in Range(s) : a <= b

min(a, b) == IF a < b THEN a ELSE b

\* position of the first maximum
argmax(s) == CHOOSE i \in 0..(Len(s) - 1) :
                 /\ s[i + 1] = amax(s)
                 /\ \A k \in 0..(i - 1) : s[k + 1] < s[i + 1]

\* positions in increasing order of value, equal values in their given order
RECURSIVE argsort_from(_, _)
argsort_from(s, S) ==
    IF S = {} THEN <<>>
    ELSE LET m == CHOOSE m \in S : \A k \in S :
                      s[m + 1] < s[k + 1] \/ (s[m + 1] = s[k + 1] /\ m <= k)
         IN  <<m>> \o argsort_from(s, S \ {m})

argsort(s) == argsort_from(s, 0..(Len(s) - 1))

Unreversed(s) == s

reverse(s) == [k \in DOMAIN s |-> s[Len(s) + 1 - k]]

\* data1[iy] of the nrows x mcols array stored row by row
row(data, iy, mcols) == SubSeq(data, iy * mcols + 1, (iy + 1) * mcols)

\* the candidates of one row: tp[1::2], or the row's argmax when tp is empty;
\* len(tp) of the None that findtp returns is a TypeError
maxima_of(rowv, tp) ==
    IF tp.status = "None" THEN [Raise("TypeError") EXCEPT !.warned = tp.warned]
    ELSE IF tp.status # "ok" THEN tp
    ELSE IF Len(tp.ind) > 0 THEN Ok(Stride2(tp.ind, 1), tp.warned)
    ELSE Ok(<<argmax(rowv)>>, tp.warned)

row_maxima(rowv, min_h) == maxima_of(rowv, findtp(rowv, min_h, "None"))

\* ind2: the candidates of row iy that exceed the same column of the rows
\* next to it (nrows >= 2)
above_neighbours(data, nrows, mcols, iy, ind) ==
    LET at(r, c) == data[r * mcols + c + 1]
        dn(c) == at(iy, c) > at(iy + 1, c)
        up(c) == at(iy, c) > at(iy - 1, c)
    IN  flatnonzero([k \in DOMAIN ind |->
            IF iy = 0 THEN dn(ind[k])
            ELSE IF iy = nrows - 1 THEN up(ind[k])
            ELSE up(ind[k]) /\ dn(ind[k])])

\* np.hstack of a sequence of index sequences
RECURSIVE hstack(_)
hstack(ss) == IF Len(ss) = 0 THEN <<>> ELSE Head(ss) \o hstack(Tail(ss))

\* the loop over the rows, m[r] being the candidates of row r - 1: ind is the
\* last row's candidates (what a vector leaves), ind_p the linear indices
\* appended row by row.  The first row that raises, or whose findtp continues
\* in the rainflow scan, ends the loop.  With ndim > 1 and one row only,
\* data1[iy + 1, ind] is out of bounds.
rows_merged(data, nrows, mcols, ndim, m) ==
    LET failed == {r \in 1..nrows : m[r].status # "ok"}
        first == CHOOSE r \in failed : \A q \in failed : r <= q
        last == IF failed = {} THEN nrows ELSE first
        warned == \E r \in 1..last : m[r].warned
        lin(r) == LET ind2 == above_neighbours(data, nrows, mcols, r - 1, m[r].ind)
                  IN  [k \in DOMAIN ind2 |-> m[r].ind[ind2[k] + 1] + (r - 1) * mcols]
    IN  IF failed # {} THEN [m[first] EXCEPT !.warned = warned]
        ELSE IF ndim = 1 THEN Ok(m[nrows].ind, warned)
        ELSE IF nrows = 1 THEN [Raise("IndexError") EXCEPT !.warned = warned]
        ELSE Ok(hstack([r \in 1..nrows |-> lin(r)]), warned)

peak_rows(data, nrows, mcols, ndim, min_h) ==
    rows_merged(data, nrows, mcols, ndim,
                [r \in 1..nrows |-> row_maxima(row(data, r - 1, mcols), min_h)])

\* min_h as findtp reads it.  The default 0.05 * (dmax - dmin) is positive
\* unless the data are constant; before the rainflow scan only the sign of
\* the threshold is read, so a positive default is passed on as 1.
peak_threshold(data, min_h) ==
    IF min_h.given THEN min_h.val
    ELSE IF amax(data) > amin(data) THEN 1 ELSE 0

\* the n highest of the candidates r.ind, then those above min_p * dmax.
\* min_p is given in halves: the test 'value > min_p * dmax' is
\* 2 * value > min_p * dmax.
top_peaks(data, n, min_p, r) ==
    IF r.status # "ok" THEN r
    ELSE IF Len(r.ind) = 0 THEN Ok(<<>>, r.warned)
    ELSE LET peaks == take(data, r.ind)
             ind2 == reverse(argsort(peaks))
             nmax == min(n, Len(r.ind))
             ind == select(r.ind, SubSeq(ind2, 1, nmax))
             high(i) == 2 * data[i + 1] > min_p * amax(data)
         IN  Ok(IF min_p > 0 THEN SelectSeq(ind, high) ELSE ind, r.warned)

\* findpeaks of the nrows x (len / nrows) array data (ndim = 1: a vector)
findpeaks(data, ndim, nrows, n, min_h, min_p) ==
    top_peaks(data, n, min_p,
              peak_rows(data, nrows, Len(data) \div nrows, ndim,
                        peak_threshold(data, min_h)))

\* ---------------------------------------------------------------- outliers

RECURSIVE SumSeq(_)
SumSeq(s) == IF Len(s) = 0 THEN 0 ELSE s[1] + SumSeq(Tail(s))

\* n^2 times the population variance of xn (xn.std() squared, scaled)
ScaledVar(xn) ==
    LET n == Len(xn)
    IN  n * SumSeq([i \in DOMAIN xn |-> xn[i] * xn[i]]) - SumSeq(xn) * SumSeq(xn)

\* d > crit, where an omitted crit is 1.5 * xn.std(); NaN compares false
over(d, crit, xn) ==
    IF isnan(d) THEN FALSE
    ELSE IF crit.given THEN d > crit.val
    ELSE /\ isfinite(xn)
         /\ d > 0
         /\ 4 * Len(xn) * Len(xn) * d * d > 9 * ScaledVar(xn)

_find_nans(xn) == flatnonzero([i \in DOMAIN xn |-> isnan(xn[i])])

\* if np.any(i_missing): xn[i_missing] = 0.
zero_nans(xs, i_missing) ==
    IF \E k \in DOMAIN i_missing : i_missing[k] # 0
    THEN [i \in DOMAIN xs |-> IF (i - 1) \in Range(i_missing) THEN 0 ELSE xs[i]]
    ELSE xs

JumpsWithoutShift(dxn, crit, xn) ==
    LET i_p == flatnonzero([i \in DOMAIN dxn |-> over(dxn[i], crit, xn)])
        i_n == flatnonzero([i \in DOMAIN dxn |->
                              ~isnan(dxn[i]) /\ over(0 - dxn[i], crit, xn)])
    IN  IF Len(i_n) > 0 THEN i_p \o i_n ELSE i_p

_find_spurious_jumps(dxn, crit, xn) ==
    LET i_p0 == flatnonzero([i \in DOMAIN dxn |-> over(dxn[i], crit, xn)])
        i_p == [k \in DOMAIN i_p0 |-> i_p0[k] + 1]
        i_n == flatnonzero([i \in DOMAIN dxn |->
                              ~isnan(dxn[i]) /\ over(0 - dxn[i], crit, xn)])
    IN  IF Len(i_n) > 0 THEN i_p \o i_n ELSE i_p

_find_consecutive_equal_values(dxn, zcrit) ==
    LET abs(a) == IF a < 0 THEN 0 - a ELSE a
        mask_small == [i \in DOMAIN dxn |-> ~isnan(dxn[i]) /\ abs(dxn[i]) <= zcrit]
        i_small0 == flatnonzero(mask_small)
        i_small == [k \in DOMAIN i_small0 |-> i_small0[k] + 1]
        dmask == [i \in 1..(Len(mask_small) - 1) |-> mask_small[i + 1] # mask_small[i]]
        i_step0 == flatnonzero(dmask)
        i_step == [k \in DOMAIN i_step0 |-> i_step0[k] + 1]
    IN  IF Len(i_small0) > 0
        THEN [k \in DOMAIN i_step |-> i_step[k] - 1] \o i_small \o i_step
             \o [k \in DOMAIN i_step |-> i_step[k] + 1]
        ELSE i_small0

\* ind, indg of lines 1680-1684
split_indices(ind0, n) ==
    IF Len(ind0) > 1
    THEN [bad |-> unique(ind0), good |-> SortSet((0..(n - 1)) \ Range(ind0))]
    ELSE [bad |-> ind0, good |-> arange(n)]

findoutliers(xs, zcrit, dcrit, ddcrit) ==
    IF ~(2 < Len(xs)) THEN Raise("ValueError")
    ELSE LET i_missing == _find_nans(xs)
             xn == zero_nans(xs, i_missing)
             dxn == diff(xn)
             ddxn == diff(dxn)
             ind0 == _find_spurious_jumps(dxn, dcrit, xn)
                     \o _find_spurious_jumps(ddxn, ddcrit, xn)
                     \o _find_consecutive_equal_values(dxn, zcrit)
             r == split_indices(ind0, Len(xn))
         IN  [Idle EXCEPT !.status = "ok", !.ind = r.bad, !.indg = r.good, !.xn = xn]

\* --------------------------------------------------------------- the calls

\* --------------------------------------------------------- troughs and crests

argmin(s) == argmax([k \in DOMAIN s |-> 0 - s[k]])

\* findcross(x, v, kind) as findtc calls it.  An omitted v is x.mean(); the
\* crossings of the mean by x are those of the level sum(x) by len(x) * x
\* (findcross reads only the signs of x - v), which keeps the level an integer.
tc_crossings(xs, v, kind) ==
    IF v.given THEN findcross(xs, v.val, kind, "clib")
    ELSE findcross([i \in DOMAIN xs |-> Len(xs) * xs[i]], SumSeq(xs), kind, "clib")

TcOffsetsSwapped(xs, v_ind, kind) ==
    LET n_c == Len(v_ind)
        is_even == mod(n_c + 1, 2)
        n_tc == (n_c - 1 - is_even) \div 2
        first_is_down_crossing == xs[v_ind[1] + 1] > xs[v_ind[1] + 2]
        seg(j) == SubSeq(xs, v_ind[j + 1] + 2, v_ind[j + 2] + 1)
        f1(s) == IF first_is_down_crossing THEN argmax(s) ELSE argmin(s)
        f2(s) == IF first_is_down_crossing THEN argmin(s) ELSE argmax(s)
    IN  [k \in 1..(n_c - 1) |->
            LET j == k - 1
            IN  IF j < 2 * n_tc
                THEN IF mod(j, 2) = 0 THEN f1(seg(j)) ELSE f2(seg(j))
                ELSE IF 2 * n_tc + 1 < n_c /\ kind \in {"None", "tw", "cw"}
                     THEN f1(seg(n_c - 2))
                     ELSE 0]

\* ind: the offset of the trough or crest after each crossing but the last.
\* The loop fills the slots 0..2*n_tc-1; the slot n_c - 2 that is left when
\* n_c is even is filled only for kind None, 'tw' and 'cw', and keeps the 0
\* it was allocated with otherwise.
tc_offsets(xs, v_ind, kind) ==
    LET n_c == Len(v_ind)
        is_even == mod(n_c + 1, 2)
        n_tc == (n_c - 1 - is_even) \div 2
        first_is_down_crossing == xs[v_ind[1] + 1] > xs[v_ind[1] + 2]
        seg(j) == SubSeq(xs, v_ind[j + 1] + 2, v_ind[j + 2] + 1)
        f1(s) == IF first_is_down_crossing THEN argmin(s) ELSE argmax(s)
        f2(s) == IF first_is_down_crossing THEN argmax(s) ELSE argmin(s)
    IN  [k \in 1..(n_c - 1) |->
            LET j == k - 1
            IN  IF j < 2 * n_tc
                THEN IF mod(j, 2) = 0 THEN f1(seg(j)) ELSE f2(seg(j))
                ELSE IF 2 * n_tc + 1 < n_c /\ kind \in {"None", "tw", "cw"}
                     THEN f1(seg(n_c - 2))
                     ELSE 0]

TcWavesFromTwoCrossings(xs, kind, c) ==
    IF c.status # "ok" THEN c
    ELSE IF Len(c.ind) <= 1 THEN Ok(<<>>, TRUE)
    ELSE LET ind == tc_offsets(xs, c.ind, kind)
         IN  [Ok([k \in 1..(Len(c.ind) - 1) |-> c.ind[k] + ind[k] + 1], c.warned)
                 EXCEPT !.v_ind = c.ind]

\* findtc from the crossings c on: ind holds the turning points, v_ind the
\* crossings
tc_of_crossings(xs, kind, c) ==
    IF c.status # "ok" THEN c
    ELSE IF Len(c.ind) <= 2 THEN Ok(<<>>, TRUE)
    ELSE LET ind == tc_offsets(xs, c.ind, kind)
         IN  [Ok([k \in 1..(Len(c.ind) - 1) |-> c.ind[k] + ind[k] + 1], c.warned)
                 EXCEPT !.v_ind = c.ind]

findtc(xs, v, kind) == tc_of_crossings(xs, kind, tc_crossings(xs, v, kind))

\* ------------------------------------------------- the rainflow scan's result

\* np.sort
sort(s) == take(s, argsort(s))

\* t_start = int(y[0] > y[1])
rfc_t_start(tp) == IF tp[1] > tp[2] THEN 1 ELSE 0

\* What the rainflow scan hands back for n points: (ind, ix), the positions
\* of the points that survive, each once, in the order the scan leaves them,
\* ix being their number.  The compiled scan fills a buffer of n entries of
\* which the first ix count; numba_misc's returns the ix entries alone.
scan_results(n, via) ==
    {[ind |-> e \o (IF via = "clib" THEN [k \in 1..(n - Len(e)) |-> 0] ELSE <<>>),
      ix |-> Len(e), kept |-> Range(e)] :
        e \in UNION {{SortSet(S), reverse(SortSet(S))} : S \in SUBSET (0..(n - 1))}}

NoScan == [ind |-> <<>>, ix |-> 0, kept |-> {}]

\* the results the scan can hand back where findrfc reached it
rfc_scans(tp, r) ==
    IF r.status = "scan"
    THEN scan_results(Len(tp) - rfc_t_start(tp), r.via)
    ELSE {NoScan}

SortedWithoutOffset(r, out, t_start) ==
    IF r.status # "scan" THEN r
    ELSE [Ok(sort(SubSeq(out.ind, 1, out.ix)), FALSE)
             EXCEPT !.via = r.via, !.kept = out.kept]

\* return np.sort(ind[:ix]) + t_start
rfc_sorted(r, out, t_start) ==
    IF r.status # "scan" THEN r
    ELSE LET ind == sort(SubSeq(out.ind, 1, out.ix))
         IN  [Ok([k \in DOMAIN ind |-> ind[k] + t_start], FALSE)
                 EXCEPT !.via = r.via, !.kept = out.kept]

Levels == Real
CrossKinds == {"None", "all", "du", "u", "d", "dw", "uw", "tw", "cw", "foo"}
CrossMethods == {"clib", "2"}
TpKinds == {"None", "mw", "Mw", "astm", "foo"}
Thresholds == {-1, 0, 1}
RfcThresholds == {0, 1}
RfcMethods == {"clib", "i0", "i1", "i2", "foo"}
ZCrits == {0, 1}
Omitted == [given |-> FALSE, val |-> 0]
Given(c) == [given |-> TRUE, val |-> c]
DCrits == {Omitted, Given(1), Given(2)}
DDCrits == {Omitted, Given(1), Given(3)}

PeakCounts == {1, 2}
MinHeights == {Omitted, Given(-1), Given(0)}
MinFractions == {0, 1}
Shapes(len) == {<<1, 1>>} \cup {<<2, r>> : r \in {q \in 1..len : len % q = 0}}

Init ==
    /\ x \in Series
    /\ clib \in BOOLEAN
    /\ call = NoCall
    /\ ret = Idle

FindCross ==
    /\ call.op = "idle"
    /\ isfinite(x)
    /\ \E v \in Levels, kind \in CrossKinds, method \in CrossMethods :
          /\ call' = [NoCall EXCEPT !.op = "findcross", !.v = v, !.kind = kind,
                                    !.method = method]
          /\ ret' = findcross(x, v, kind, method)
    /\ UNCHANGED <<x, clib>>

FindExtrema ==
    /\ call.op = "idle"
    /\ isfinite(x)
    /\ Len(x) >= 2
    /\ call' = [NoCall EXCEPT !.op = "findextrema"]
    /\ ret' = findextrema(x)
    /\ UNCHANGED <<x, clib>>

FindTp ==
    /\ call.op = "idle"
    /\ isfinite(x)
    /\ \E h \in Thresholds, kind \in TpKinds :
          /\ h < 0 \/ Len(x) >= 2
          /\ call' = [NoCall EXCEPT !.op = "findtp", !.h = h, !.kind = kind]
          /\ ret' = findtp(x, h, kind)
    /\ UNCHANGED <<x, clib>>

FindRfc ==
    /\ call.op = "idle"
    /\ isfinite(x)
    /\ \E h \in RfcThresholds, method \in RfcMethods :
          /\ call' = [NoCall EXCEPT !.op = "findrfc", !.h = h, !.method = method]
          /\ \E out \in rfc_scans(x, findrfc(x, h, method)) :
                ret' = rfc_sorted(findrfc(x, h, method), out, rfc_t_start(x))
    /\ UNCHANGED <<x, clib>>

FindOutliers ==
    /\ call.op = "idle"
    /\ \E zcrit \in ZCrits, dcrit \in DCrits, ddcrit \in DDCrits :
          /\ call' = [NoCall EXCEPT !.op = "findoutliers", !.zcrit = zcrit,
                                    !.dcrit = dcrit, !.ddcrit = ddcrit]
          /\ ret' = findoutliers(x, zcrit, dcrit, ddcrit)
    /\ UNCHANGED <<x, clib>>

\* a sequence of turning points: successive differences are non-zero and
\* change sign every step
StrictlyAlternating(tp) ==
    /\ \A k \in 1..(Len(tp) - 1) : tp[k] # tp[k + 1]
    /\ \A k \in 1..(Len(tp) - 2) :
           sign(tp[k + 1] - tp[k]) # sign(tp[k + 2] - tp[k + 1])

FindRfcAstm ==
    /\ call.op = "idle"
    /\ isfinite(x)
    /\ Len(x) >= 2
    /\ StrictlyAlternating(x)
    /\ call' = [NoCall EXCEPT !.op = "findrfc_astm"]
    /\ ret' = findrfc_astm(x)
    /\ UNCHANGED <<x, clib>>

TcKinds == {"None", "all", "dw", "uw", "tw", "cw", "foo"}
TcLevels == {Omitted, Given(0)}

FindTc ==
    /\ call.op = "idle"
    /\ isfinite(x)
    /\ \E v \in TcLevels, kind \in TcKinds :
          /\ call' = [NoCall EXCEPT !.op = "findtc", !.level = v, !.kind = kind]
          /\ ret' = findtc(x, v, kind)
    /\ UNCHANGED <<x, clib>>

FindPeaks ==
    /\ call.op = "idle"
    /\ isfinite(x)
    /\ \E shape \in Shapes(Len(x)), n \in PeakCounts, min_h \in MinHeights,
          min_p \in MinFractions :
          /\ peak_threshold(x, min_h) < 0 \/ Len(x) \div shape[2] >= 2
          /\ call' = [NoCall EXCEPT !.op = "findpeaks", !.ndim = shape[1],
                                    !.nrows = shape[2], !.n = n,
                                    !.min_h = min_h, !.min_p = min_p]
          /\ ret' = findpeaks(x, shape[1], shape[2], n, min_h, min_p)
    /\ UNCHANGED <<x, clib>>

\* the time axes of the samples: increasing, evenly and unevenly spaced
TimeAxes(n) == {[k \in 1..n |-> k - 1], [k \in 1..n |-> k * k + 1]}
EcrossKinds == {"None", "u", "d"}

ECross ==
    /\ call.op = "idle"
    /\ isfinite(x)
    /\ \E v \in Levels, kind \in EcrossKinds, t \in TimeAxes(Len(x)) :
          LET ind == findcross(x, v, kind, "clib").ind
          IN  /\ call' = [NoCall EXCEPT !.op = "ecross", !.v = v, !.kind = kind,
                                        !.t = t, !.ind = ind]
              /\ ret' = ecross(t, x, ind, v)
    /\ UNCHANGED <<x, clib>>

Next ==
    \/ FindCross \/ FindExtrema \/ FindTp \/ FindRfc \/ FindOutliers \/ FindPeaks
    \/ FindRfcAstm \/ FindTc \/ ECross

Spec == Init /\ [][Next]_vars

\* Troughs and crests over longer series: four crossings of which the last
\* two are more than one sample apart need six samples, and a trough whose
\* minimum is not its first sample needs two values below the level.
TcLen == 6
TcSample == {-2, -1, 0, 1}
TcSeries == UNION {[1..n -> TcSample] : n \in 1..TcLen}

InitTc ==
    /\ x \in TcSeries
    /\ clib \in BOOLEAN
    /\ call = NoCall
    /\ ret = Idle

NextTc == FindTc

SpecTc == InitTc /\ [][NextTc]_vars

\* Rainflow filtering over longer sequences: a scan after the drop of a
\* leading maximum needs five points.
RfcLen == 5
RfcSample == {-1, 0, 1}
RfcSeries == UNION {[1..n -> RfcSample] : n \in 1..RfcLen}

InitRfc ==
    /\ x \in RfcSeries
    /\ clib \in BOOLEAN
    /\ call = NoCall
    /\ ret = Idle

NextRfc == FindRfc

SpecRfc == InitRfc /\ [][NextRfc]_vars

\* ------------------------------------------------------------ properties

Returned == ret.status = "ok"

StrictlyIncreasing(s) == \A k \in 1..(Len(s) - 1) : s[k] < s[k + 1]

\* sign of the nearest sample at or before index i that differs from v;
\* 0 when every sample up to i equals v
CarriedSign(xs, v, i) ==
    LET P == {j \in 0..i : xs[j + 1] # v}
    IN  IF P = {} THEN 0
        ELSE LET j == CHOOSE j \in P : \A k \in P : k <= j
             IN  sign(xs[j + 1] - v)

\* the indices after which the series is strictly on the other side of v
CrossSet(xs, v) ==
    {i \in 0..(Len(xs) - 2) :
        /\ xs[i + 2] # v
        /\ CarriedSign(xs, v, i) # sign(xs[i + 2] - v)}

IsDownCrossing(xs, v, i) == xs[i + 1] >= v /\ xs[i + 2] < v
IsUpCrossing(xs, v, i) == xs[i + 1] <= v /\ xs[i + 2] > v

RawCall == call.op = "findcross" /\ call.kind = "None" /\ Returned

\* C1 as stated: the crossings of findcross(x, v) are strictly increasing, lie
\* in 0..n-2, and at each of them the series carries opposite signs at i and i+1.
C1_OppositeCarriedSigns ==
    RawCall =>
        /\ StrictlyIncreasing(ret.ind)
        /\ \A k \in DOMAIN ret.ind :
              /\ ret.ind[k] \in 0..(Len(x) - 2)
              /\ CarriedSign(x, call.v, ret.ind[k])
                   * CarriedSign(x, call.v, ret.ind[k] + 1) = -1

\* C1 amended: the crossings of findcross(x, v) are strictly increasing, lie in
\* 0..n-2, sample i+1 differs from v, and the series carries opposite signs at
\* i and i+1 -- except at the first crossing of a series that starts with a run
\* of samples equal to v, where sample i ends that run and carries no sign.
C1_CrossingsSound ==
    RawCall =>
        /\ StrictlyIncreasing(ret.ind)
        /\ \A k \in DOMAIN ret.ind :
              LET i == ret.ind[k]
              IN  /\ i \in 0..(Len(x) - 2)
                  /\ x[i + 2] # call.v
                  /\ \/ CarriedSign(x, call.v, i) * sign(x[i + 2] - call.v) = -1
                     \/ k = 1 /\ \A j \in 0..i : x[j + 1] = call.v

C1_Witness ==
    /\ RawCall
    /\ Len(ret.ind) >= 2
    /\ x[1] = call.v
    /\ \E k \in DOMAIN ret.ind :
          x[ret.ind[k] + 1] = call.v /\ CarriedSign(x, call.v, ret.ind[k]) # 0

\* C4: kind 'd' returns exactly the down-crossings (at or above v, then
\* strictly below) and kind 'u' exactly the up-crossings, in increasing order.
C4_DirectionExact ==
    (call.op = "findcross" /\ call.kind \in {"d", "u"} /\ Returned) =>
        ret.ind = SortSet({i \in CrossSet(x, call.v) :
                             IF call.kind = "d" THEN IsDownCrossing(x, call.v, i)
                             ELSE IsUpCrossing(x, call.v, i)})

C4_Witness ==
    /\ call.op = "findcross" /\ call.kind = "d" /\ Returned
    /\ x[1] = call.v
    /\ Cardinality(CrossSet(x, call.v)) >= 2
    /\ Len(ret.ind) >= 1
    /\ ~IsDownCrossing(x, call.v, 0)

WaveCall ==
    call.op = "findcross" /\ call.kind \in {"dw", "uw", "tw", "cw"} /\ Returned

FirstPolarityRight(xs, v, kind, i) ==
    IF kind \in {"dw", "tw"} THEN IsDownCrossing(xs, v, i) ELSE IsUpCrossing(xs, v, i)

C6_WaveTrim ==
    WaveCall =>
        LET raw == SortSet(CrossSet(x, call.v))
        IN  /\ Len(ret.ind) > 0 =>
                 FirstPolarityRight(x, call.v, call.kind, ret.ind[1])
            /\ \E a \in {1, 2}, b \in {Len(raw) - 1, Len(raw)} :
                  ret.ind = SubSeq(raw, a, b)

C6_Witness ==
    /\ WaveCall
    /\ Cardinality(CrossSet(x, call.v)) = 3
    /\ Len(ret.ind) = 1

\* C7: a kind outside None, 'all', 'u', 'd', 'dw', 'uw', 'tw', 'cw' makes
\* findcross fail with ValueError, whether or not the series crosses v.
C7_UnknownKindRaises ==
    (call.op = "findcross"
       /\ call.kind \notin {"None", "all", "u", "d", "dw", "uw", "tw", "cw"}) =>
        ret.status = "ValueError"

\* C2: the bad and good indices of findoutliers partition 0..n-1 and the bad
\* indices hold no duplicate.
C2_Partition ==
    (call.op = "findoutliers" /\ Returned) =>
        /\ Range(ret.ind) \cap Range(ret.indg) = {}
        /\ Range(ret.ind) \cup Range(ret.indg) = 0..(Len(x) - 1)
        /\ \A j, k \in DOMAIN ret.ind : j # k => ret.ind[j] # ret.ind[k]

\* C10: findoutliers sets every NaN sample to 0 before the difference tests
\* and reports its index as bad and not as good.
C10_NaNsZeroedAndFlagged ==
    (call.op = "findoutliers" /\ Returned) =>
        \A i \in DOMAIN x :
            isnan(x[i]) =>
                /\ ret.xn[i] = 0
                /\ (i - 1) \in Range(ret.ind)
                /\ (i - 1) \notin Range(ret.indg)

\* C3: with h >= 0 the values at the indices findtp returns strictly
\* alternate: each inner point is strictly above both neighbours or strictly
\* below both.
C3_StrictAlternation ==
    (call.op = "findtp" /\ call.h >= 0 /\ Returned) =>
        \A k \in 2..(Len(ret.ind) - 1) :
            LET a == x[ret.ind[k - 1] + 1]
                b == x[ret.ind[k] + 1]
                c == x[ret.ind[k + 1] + 1]
            IN  (b > a /\ b > c) \/ (b < a /\ b < c)

\* C8: an unrecognized kind given to findtp, or an unrecognized method given
\* to findrfc, aborts the call with ValueError.
C8_UnknownEnumRaises ==
    /\ (call.op = "findtp" /\ call.kind \notin {"None", "mw", "Mw", "astm"}) =>
          ret.status = "ValueError"
    /\ (call.op = "findrfc" /\ call.method \notin {"clib", "i0", "i1", "i2"}) =>
          ret.status = "ValueError"

\* C9 as stated: findextrema returns nothing when the first difference has
\* fewer than 2 zero-crossings.
C9_EmptyBelowTwo ==
    (call.op = "findextrema" /\ Cardinality(CrossSet(diff(x), 0)) < 2) =>
        ret.ind = <<>>

\* C9 amended: findextrema returns nothing when the first difference has no
\* zero-crossing, and the single index c+1 when it has exactly one, at c.
C9_EmptyOrSingle ==
    (call.op = "findextrema" /\ Cardinality(CrossSet(diff(x), 0)) < 2) =>
        /\ Returned
        /\ ret.ind = SortSet({c + 1 : c \in CrossSet(diff(x), 0)})

C9_Witness ==
    /\ call.op = "findextrema"
    /\ Cardinality(CrossSet(diff(x), 0)) = 1
    /\ Len(ret.ind) = 1

\* C11: every sample of a run of first differences with |d| <= zcrit, and the
\* sample just before and just after the run where they exist, is flagged:
\* a small difference d[k] puts the samples k-1..k+2 of 0..n-1 among the bad.
C11_FlatRunsFlagged ==
    (call.op = "findoutliers" /\ Returned) =>
        LET dxn == diff(ret.xn)
            n == Len(ret.xn)
        IN  \A k \in 0..(n - 2) :
                (~isnan(dxn[k + 1]) /\ dxn[k + 1] <= call.zcrit
                                    /\ 0 - dxn[k + 1] <= call.zcrit) =>
                    \A s \in (k - 1)..(k + 2) :
                        s \in 0..(n - 1) => s \in Range(ret.ind)

\* the points findrfc works on: tp without a leading maximum
RfcPoints == IF Len(x) >= 2 /\ x[1] > x[2] THEN Tail(x) ELSE x

RfcNC == (Len(RfcPoints) \div 2) - 1

\* C15: with NC = floor(n/2) - 1 < 1 findrfc returns the empty sequence and
\* does not fail, for the inputs of length 0, 1, 2 and 3 too.
C15_EmptyWithoutCycles ==
    (call.op = "findrfc" /\ RfcNC < 1) => (Returned /\ ret.ind = <<>>)

RfcMonotoneStart ==
    /\ Len(RfcPoints) >= 3
    /\ \/ RfcPoints[1] < RfcPoints[2] /\ RfcPoints[2] < RfcPoints[3]
       \/ RfcPoints[1] > RfcPoints[2] /\ RfcPoints[2] > RfcPoints[3]

TpCall == call.op = "findtp" /\ ret.status # "scan"

FewExtrema == Len(findextrema(x).ind) < 2

\* C13: findtp returns None exactly when h >= 0 and findextrema(x) has fewer
\* than 2 indices; in every other case it returns an index sequence.
C13_NoneExactly ==
    TpCall => IF call.h >= 0 /\ FewExtrema THEN ret.status = "None"
              ELSE Returned

\* sample i is a local maximum of xs: the nearest samples that differ from it,
\* on each side that has one, are lower (and some side has one)
IsMaxAt(xs, i) ==
    LET n == Len(xs)
        L == {k \in 0..(i - 1) : xs[k + 1] # xs[i + 1]}
        R == {k \in (i + 1)..(n - 1) : xs[k + 1] # xs[i + 1]}
    IN  /\ L # {} \/ R # {}
        /\ \A k \in L : (\A m \in L : m <= k) => xs[k + 1] < xs[i + 1]
        /\ \A k \in R : (\A m \in R : m >= k) => xs[k + 1] < xs[i + 1]

IsMinAt(xs, i) == IsMaxAt([k \in DOMAIN xs |-> 0 - xs[k]], i)

\* C14: kind 'mw'/'Mw', h >= 0, at least 2 extrema: an odd number of indices
\* whose first point is a maximum for 'Mw' and a minimum for 'mw'.
C14_WaveTurningPoints ==
    (TpCall /\ call.kind \in {"mw", "Mw"} /\ call.h >= 0 /\ ~FewExtrema) =>
        /\ Returned
        /\ mod(Len(ret.ind), 2) = 1
        /\ IF call.kind = "Mw" THEN IsMaxAt(x, ret.ind[1])
           ELSE IsMinAt(x, ret.ind[1])

\* C12: findpeaks, for 1-D and 2-D input, rows where findtp gives None
\* included, returns linear indices into the data (possibly none) and does
\* not fail.
C12_PeaksNeverFail ==
    (call.op = "findpeaks" /\ ret.status # "scan") =>
        /\ Returned
        /\ \A k \in DOMAIN ret.ind : ret.ind[k] \in 0..(Len(x) - 1)

CyclesOfType(type) == Cardinality({k \in DOMAIN ret.cycles : ret.cycles[k].type = type})

\* C18: findrfc_astm discards nothing: for a strictly alternating sequence of
\* n >= 2 turning points, 2 * (full cycles) + (half cycles) + 1 = n, every
\* record is a full or a half cycle, and every amplitude is >= 0.
C18_AstmAccountsForEveryPoint ==
    call.op = "findrfc_astm" =>
        /\ Returned
        /\ 2 * CyclesOfType("full") + CyclesOfType("half") + 1 = Len(x)
        /\ \A k \in DOMAIN ret.cycles :
               /\ ret.cycles[k].type \in {"full", "half"}
               /\ ret.cycles[k].amp2 >= 0

C18_Witness ==
    /\ call.op = "findrfc_astm"
    /\ CyclesOfType("full") >= 1
    /\ CyclesOfType("half") >= 1
    /\ 2 * CyclesOfType("full") + CyclesOfType("half") + 1 = Len(x)

\* the side of the level that sample i lies on, for the level of the call
\* (the mean of x when v is omitted)
TcSide(i) ==
    IF call.level.given THEN sign(x[i + 1] - call.level.val)
    ELSE sign(Len(x) * x[i + 1] - SumSeq(x))

\* C20: for kind None, 'all', 'dw', 'uw', 'tw', 'cw' and m >= 3 crossings
\* c[0..m-1], findtc returns m - 1 turning points, the k-th being a position
\* of the minimum (trough) or maximum (crest) of x over the samples
\* c[k]+1..c[k+1]; troughs and crests alternate and the first is a trough
\* exactly when c[0] is a down-crossing.
C20_TroughCrestBetweenCrossings ==
    (/\ call.op = "findtc"
     /\ call.kind \in {"None", "all", "dw", "uw", "tw", "cw"}
     /\ Returned
     /\ Len(ret.v_ind) >= 3) =>
        LET c == ret.v_ind
            m == Len(c)
            first_down == TcSide(c[1] + 1) < 0
            trough(k) == (mod(k, 2) = 0) = first_down
            between(k) == (c[k + 1] + 1)..c[k + 2]
        IN  /\ Len(ret.ind) = m - 1
            /\ \A k \in 0..(m - 2) :
                   /\ ret.ind[k + 1] \in between(k)
                   /\ \A i \in between(k) :
                          IF trough(k) THEN x[ret.ind[k + 1] + 1] <= x[i + 1]
                          ELSE x[ret.ind[k + 1] + 1] >= x[i + 1]

\* the crossings findtc works from, for the level and kind of the call
TcCrossings == tc_crossings(x, call.level, call.kind)

\* C21: when findcross yields fewer than 3 crossings, findtc emits the
\* 'There are no waves!' diagnostic and returns two empty index sequences.
C21_NoWavesBelowThreeCrossings ==
    (call.op = "findtc" /\ TcCrossings.status = "ok" /\ Len(TcCrossings.ind) < 3) =>
        (Returned /\ ret.ind = <<>> /\ ret.v_ind = <<>> /\ ret.warned)

C21_Witness ==
    /\ call.op = "findtc"
    /\ TcCrossings.status = "ok"
    /\ Len(TcCrossings.ind) = 2
    /\ Returned /\ ret.ind = <<>> /\ ret.v_ind = <<>> /\ ret.warned

\* C22: when the series never crosses the level v (a one-sample series and a
\* series constantly equal to v included), findcross returns the empty index
\* sequence for every kind and never raises.
C22_EmptyWithoutCrossings ==
    (call.op = "findcross" /\ CrossSet(x, call.v) = {}) =>
        (Returned /\ ret.ind = <<>>)

C22_Witness ==
    /\ call.op = "findcross"
    /\ call.kind = "foo"
    /\ Len(x) >= 2
    /\ \A k \in DOMAIN x : x[k] = call.v
    /\ Returned /\ ret.ind = <<>>

\* the candidate maxima findpeaks selects from, over all rows
PeakCandidates ==
    peak_rows(x, call.nrows, Len(x) \div call.nrows, call.ndim,
              peak_threshold(x, call.min_h)).ind

\* C23: findpeaks returns at most n indices, ordered by non-increasing value,
\* which are the n highest-valued candidate maxima among all rows (a candidate
\* left out either fails the min_p test or has n candidates at least as high),
\* and when min_p > 0 no returned peak lies below min_p times the global maximum.
C23_HighestPeaksFirst ==
    (call.op = "findpeaks" /\ Returned) =>
        LET cand == Range(PeakCandidates)
            got == Range(ret.ind)
            val(i) == x[i + 1]
            fails(i) == call.min_p > 0 /\ 2 * val(i) <= call.min_p * amax(x)
        IN  /\ Len(ret.ind) <= call.n
            /\ Cardinality(got) = Len(ret.ind)
            /\ \A k \in 1..(Len(ret.ind) - 1) : val(ret.ind[k]) >= val(ret.ind[k + 1])
            /\ got \subseteq cand
            /\ \A j \in cand \ got :
                  \/ fails(j)
                  \/ Cardinality({i \in cand \ {j} : val(i) >= val(j)}) >= call.n
            /\ \A i \in got : ~fails(i)
            /\ call.min_p > 0 => \A i \in got : 2 * val(i) >= call.min_p * amax(x)

C23_Witness ==
    /\ call.op = "findpeaks" /\ Returned
    /\ call.n = 2
    /\ Cardinality(Range(PeakCandidates)) = 2
    /\ Len(ret.ind) = 2
    /\ x[ret.ind[1] + 1] > x[ret.ind[2] + 1]
    /\ ret.ind[1] > ret.ind[2]

\* num / den <= c and num / den >= c for a fraction of non-zero denominator
FracLeq(q, c) == IF q.den > 0 THEN q.num <= c * q.den ELSE q.num >= c * q.den
FracGeq(q, c) == IF q.den > 0 THEN q.num >= c * q.den ELSE q.num <= c * q.den

\* C24: for every crossing index i returned by findcross(x, v), x[i+1] # x[i],
\* so the interpolated time t0 of ecross is defined; t0 lies in [t[i], t[i+1]]
\* and the straight line through (t[i], x[i]) and (t[i+1], x[i+1]) takes the
\* value v at t0.
C24_InterpolationDefined ==
    (call.op = "ecross") =>
        /\ Returned
        /\ Len(ret.t0) = Len(call.ind)
        /\ \A k \in DOMAIN call.ind :
              LET i == call.ind[k] + 1
                  t == call.t
                  q == ret.t0[k]
              IN  /\ x[i + 1] # x[i]
                  /\ q.den # 0
                  /\ FracGeq(q, t[i]) /\ FracLeq(q, t[i + 1])
                  /\ x[i] * q.den * (t[i + 1] - t[i])
                        + (q.num - t[i] * q.den) * (x[i + 1] - x[i])
                     = call.v * q.den * (t[i + 1] - t[i])

C24_Witness ==
    /\ call.op = "ecross" /\ Returned
    /\ Len(ret.t0) >= 2
    /\ \E k \in DOMAIN ret.t0 :
          /\ x[call.ind[k] + 1] # call.v
          /\ ret.t0[k].den < 0
          /\ call.t[call.ind[k] + 2] - call.t[call.ind[k] + 1] > 1

\* C25: with h = 0, kind None or 'astm' and at least two extrema, findtp
\* returns exactly the extrema plus boundary indices: the last index is n-1;
\* index 0 comes first when kind is 'astm' (unless 0 is already the first
\* extremum) or when kind is not 'astm' and x[extrema[0]] > x[extrema[1]];
\* otherwise the first index is extrema[0]; no index appears twice.
C25_ExtremaPlusBoundaries ==
    (TpCall /\ call.h = 0 /\ call.kind \in {"None", "astm"} /\ ~FewExtrema) =>
        LET E == findextrema(x).ind
            n == Len(x)
            zero_first == IF call.kind = "astm" THEN E[1] # 0
                          ELSE x[E[1] + 1] > x[E[2] + 1]
        IN  /\ Returned
            /\ ret.ind = (IF zero_first THEN <<0>> ELSE <<>>) \o E \o <<n - 1>>
            /\ ret.ind[Len(ret.ind)] = n - 1
            /\ ret.ind[1] = (IF zero_first THEN 0 ELSE E[1])
            /\ Cardinality(Range(ret.ind)) = Len(ret.ind)

C25_Witness ==
    /\ TpCall /\ call.h = 0 /\ call.kind = "None" /\ ~FewExtrema
    /\ Returned
    /\ ret.ind[1] # 0
    /\ Len(ret.ind) = 3

\* C26: the indices findrfc returns are strictly increasing valid positions of
\* the original input; when the first sample was dropped every index is a
\* position of the shortened sequence plus 1, so index 0 is never returned.
C26_IndicesIntoOriginal ==
    (call.op = "findrfc" /\ Returned) =>
        LET dropped == Len(x) >= 2 /\ x[1] > x[2]
        IN  /\ StrictlyIncreasing(ret.ind)
            /\ \A k \in DOMAIN ret.ind : ret.ind[k] \in 0..(Len(x) - 1)
            /\ dropped =>
                  /\ Range(ret.ind) = {p + 1 : p \in ret.kept}
                  /\ \A k \in DOMAIN ret.ind :
                        /\ ret.ind[k] - 1 \in 0..(Len(RfcPoints) - 1)
                        /\ ret.ind[k] # 0
            /\ ~dropped => Range(ret.ind) = ret.kept

C26_Witness ==
    /\ call.op = "findrfc" /\ Returned
    /\ x[1] > x[2]
    /\ ret.via = "clib"
    /\ ret.kept = {0, 2, 3}
    /\ ret.ind = <<1, 3, 4>>

\* d is strictly beyond the threshold of the call: crit itself when given,
\* 1.5 times the standard deviation of xn when omitted
Beyond(d, crit, xn) ==
    /\ ~isnan(d)
    /\ IF crit.given THEN d > crit.val
       ELSE isfinite(xn) /\ d > 0 /\ 4 * Len(xn) * Len(xn) * d * d > 9 * ScaledVar(xn)

\* the samples the jump rule names for the differences ds: k+1 for a
\* difference above crit, k for one below -crit
JumpFlags(ds, crit, xn) ==
    {k + 1 : k \in {j \in 0..(Len(ds) - 1) : Beyond(ds[j + 1], crit, xn)}}
        \cup {k \in 0..(Len(ds) - 1) : ~isnan(ds[k + 1]) /\ Beyond(0 - ds[k + 1], crit, xn)}

\* C27: findoutliers flags sample k+1 for every first difference d[k] > dcrit
\* and sample k for every d[k] < -dcrit, applies the same rule to the second
\* difference against ddcrit, flags no sample for a difference that equals the
\* threshold exactly (a flagged sample is named by a jump or by the flat-run
\* rule), and every flagged index lies in 0..n-1.
C27_JumpsFlagged ==
    (call.op = "findoutliers" /\ Returned) =>
        LET xn == ret.xn
            n == Len(xn)
            jumps == JumpFlags(diff(xn), call.dcrit, xn)
                        \cup JumpFlags(diff(diff(xn)), call.ddcrit, xn)
            flat == Range(_find_consecutive_equal_values(diff(xn), call.zcrit))
        IN  /\ jumps \subseteq Range(ret.ind)
            /\ Range(ret.ind) \subseteq jumps \cup flat
            /\ \A k \in DOMAIN ret.ind : ret.ind[k] \in 0..(n - 1)

C27_Witness ==
    /\ call.op = "findoutliers" /\ Returned
    /\ isfinite(x)
    /\ call.dcrit.given /\ call.ddcrit.given
    /\ \E k \in 1..(Len(x) - 1) :
          /\ x[k + 1] - x[k] = call.dcrit.val
          /\ k \notin Range(ret.ind)
    /\ \E k \in 1..(Len(x) - 1) :
          /\ x[k + 1] - x[k] > call.dcrit.val
          /\ k \in Range(ret.ind)
    /\ \E k \in 1..(Len(x) - 2) :
          /\ x[k + 1] + x[k + 1] - x[k + 2] - x[k] > call.ddcrit.val
          /\ (k - 1) \in Range(ret.ind)

\* C28: a series that starts with samples equal to v and then departs has its
\* first crossing at the last sample of that leading run; a run of samples
\* equal to v inside the series (samples a..b, sample a-1 off the level)
\* contributes no crossing before b, and one at b exactly when the sample
\* after the run is strictly on the other side than the sample before it.
C28_AtLevelRuns ==
    RawCall =>
        LET n == Len(x)
            v == call.v
            at(i) == x[i + 1] = v
            run(a, b) == \A i \in a..b : at(i)
            got == Range(ret.ind)
        IN  /\ \A k \in 0..(n - 2) :
                  (run(0, k) /\ ~at(k + 1)) => (Len(ret.ind) >= 1 /\ ret.ind[1] = k)
            /\ \A a \in 1..(n - 1) : \A b \in a..(n - 1) :
                  (~at(a - 1) /\ run(a, b) /\ (b = n - 1 \/ ~at(b + 1))) =>
                      /\ got \cap ((a - 1)..(b - 1)) = {}
                      /\ b <= n - 2 =>
                            (b \in got <=> sign(x[b + 2] - v) # sign(x[a] - v))

C28_Witness ==
    /\ RawCall
    /\ x = <<0, 1, -1, 1>>
    /\ call.v = 0
    /\ ret.ind = <<0, 1, 2>>

\* C29: for every series and level the crossings of kind 'u' and of kind 'd'
\* are disjoint, their union is the result of kind None, and in increasing
\* order of index up-crossings and down-crossings strictly alternate.
C29_UpDownPartition ==
    RawCall =>
        LET u == Range(findcross(x, call.v, "u", call.method).ind)
            d == Range(findcross(x, call.v, "d", call.method).ind)
        IN  /\ findcross(x, call.v, "u", call.method).status = "ok"
            /\ findcross(x, call.v, "d", call.method).status = "ok"
            /\ u \cap d = {}
            /\ u \cup d = Range(ret.ind)
            /\ \A k \in 1..(Len(ret.ind) - 1) :
                  (ret.ind[k] \in u) # (ret.ind[k + 1] \in u)

C29_Witness ==
    /\ RawCall
    /\ ret.ind = <<0, 1, 2>>
    /\ findcross(x, call.v, "u", call.method).ind = <<1>>
    /\ findcross(x, call.v, "d", call.method).ind = <<0, 2>>

\* C30: for kind None, 'dw', 'uw', 'tw', 'cw' and at least 3 crossings c the
\* outputs of findtc interleave: c[k] < tc[k] <= c[k+1]; every trough (the
\* turning point after a down-crossing) lies strictly below the level and
\* every crest (after an up-crossing) strictly above it.
C30_Interleaved ==
    (/\ call.op = "findtc"
     /\ call.kind \in {"None", "dw", "uw", "tw", "cw"}
     /\ Returned
     /\ Len(ret.v_ind) >= 3) =>
        LET c == ret.v_ind
            tc == ret.ind
            first_down == TcSide(c[1]) >= 0 /\ TcSide(c[1] + 1) < 0
            trough(k) == (mod(k, 2) = 0) = first_down
        IN  /\ Len(tc) = Len(c) - 1
            /\ \A k \in 1..Len(tc) :
                  /\ c[k] < tc[k] /\ tc[k] <= c[k + 1]
                  /\ IF trough(k - 1) THEN TcSide(tc[k]) < 0 ELSE TcSide(tc[k]) > 0

C30_Witness ==
    /\ call.op = "findtc" /\ call.kind = "tw" /\ Returned
    /\ Len(ret.v_ind) = 4
    /\ ret.ind[3] = ret.v_ind[4]
    /\ ret.ind[1] > ret.v_ind[1] + 1
    /\ \E i \in DOMAIN x : TcSide(i - 1) = 0

====
